---- MODULE Spec2Model ----
(***************************************************************************)
(* Filing deduplication and incremental-update pipeline of the stockalert  *)
(* backend.                                                                *)
(*                                                                         *)
(*   Spec        the file-cache poller, main.py: fetch, find_new against   *)
(*               nse_cache.json, save_cache.                               *)
(*   SpecMongo   nse_scrapper.py main with its database faults and kills: *)
(*               the last_hour refresh and the company-map upserts.        *)
(*   SpecScrape  nse_scrapper.py main next to the /scrape endpoint of      *)
(*               server.py (company collection).                           *)
(*   SpecNotify  nse_scrapper.py main followed by runs of                  *)
(*               scripts/summarize_hour.py (summaries and WhatsApp         *)
(*               fan-out).                                                 *)
(*   SpecOverlap two runs of nse_scrapper.py whose database operations     *)
(*               interleave.                                               *)
(*   SpecSummarize nse_scrapper.py main followed by runs of                *)
(*               scripts/summarize_last_hour.py (summary-map).             *)
(*   SpecSend    scripts/broadcast_message.py and                          *)
(*               scripts/send_whatsapp_template.py.                        *)
(*   SpecPhone   the two normalize_phone functions on their inputs.        *)
(*   SpecRunAll  the cycles of /api/run_all of server.py: scrape,          *)
(*               summarize, send.                                          *)
(*   SpecStock   the /stock endpoint of app/__init__.py on the answers of  *)
(*               the scrape API.                                           *)
(*   SpecLlm     summarize_text_with_openai of summarize_last_hour.py on   *)
(*               the answers of the OpenAI client.                         *)
(*                                                                         *)
(* Python values: strings are TLA+ strings, None is PyNone, a dict is a    *)
(* record (a function on its keys), a list is a sequence.                  *)
(***************************************************************************)
EXTENDS Integers, Sequences, FiniteSets, TLC

VARIABLES
    cacheFile,      \* main.py: the content of nse_cache.json
    run,            \* main.py: what the last cycle fetched and reported
    companyMap,     \* nse_data['company-map']: set of documents
    lastHour,       \* nse_data['last_hour']: sequence of documents
    companyColl,    \* server.py DB['company']: set of documents
    hourlySummaries,\* nse_data['hourly_summaries']: set of documents
    scrapeRun,      \* the last scrape run: script, outcome and counters
    notifyRun,      \* the last summarize_hour run: outcome and counters
    sendCount,      \* send_message invocations per <<company, filing, phone>>
    acked,          \* the <<company, filing, phone>> send_message succeeded for
    resent,         \* those send_message was invoked for again after that
    summaryMap,     \* nse_data['summary-map']: set of documents
    sendRun,        \* the last run of a sending script: recipients, attempts
    phoneRun,       \* a phone value and what the normalize_phone versions return
    cycles,         \* the overlapping runs of nse_scrapper.py: position and data
    stockRun,       \* the last /stock request: upstream answer and response
    runAll,         \* the last run_all cycle: return codes and success flag
    llmRun          \* the answers of the OpenAI client to one call of
                    \* summarize_text_with_openai and what it returned

cacheVars == <<cacheFile, run>>
notifyVars == <<hourlySummaries, notifyRun, sendCount, acked, resent>>
otherVars == <<stockRun, runAll, llmRun>>
auxVars == <<summaryMap, sendRun, phoneRun, cycles, otherVars>>
mongoVars == <<companyMap, lastHour, companyColl, scrapeRun, notifyVars, auxVars>>
vars == <<cacheFile, run, companyMap, lastHour, companyColl, scrapeRun,
          hourlySummaries, notifyRun, sendCount, acked, resent,
          summaryMap, sendRun, phoneRun, cycles, stockRun, runAll, llmRun>>

----------------------------------------------------------------------------
(* Python helpers *)

PyNone == "<None>"

\* bool(v) of a string-or-None value
Truthy(v) == v # PyNone /\ v # ""

\* a or b
Or(a, b) == IF Truthy(a) THEN a ELSE b

\* d.get(k) and d.get(k, default)
Get(d, k) == IF k \in DOMAIN d THEN d[k] ELSE PyNone

GetDefault(d, k, default) == IF k \in DOMAIN d THEN d[k] ELSE default

\* f"{v}"
Format(v) == IF v = PyNone THEN "None" ELSE v

Range(s) == {s[i] : i \in 1..Len(s)}

\* the sequences over S of length at most n
SeqUpTo(S, n) == UNION {[1..k -> S] : k \in 0..n}

----------------------------------------------------------------------------
(* main.py *)

\* longest fetch the upstream returns
MaxFetch == 2

\* items of the upstream 'data' array as main.py reads them
CacheItems ==
    { [symbol |-> "A", companyName |-> "Acme Ltd", desc |-> "Board_Meeting",
       smInf |-> "d1", an_dt |-> "T1", attchmntSize |-> PyNone],
      [symbol |-> "A", companyName |-> "Acme Ltd", desc |-> "Board_Meeting",
       smInf |-> "d2", an_dt |-> "T1", attchmntFile |-> "/a.pdf",
       attchmntSize |-> "1 KB"],
      [symbol |-> "AX", companyName |-> "Acme Ltd", desc |-> "Board_Meeting",
       smInf |-> "d1", an_dt |-> "T1", attchmntSize |-> PyNone],
      [symbol |-> "A_T1", companyName |-> "Beta Ltd", desc |-> "Meeting",
       smInf |-> "d1", an_dt |-> "Board", attchmntSize |-> PyNone] }

\* what the upstream answers: a status code and the 'data' array
Responses ==
    {[status_code |-> 200, data |-> d] : d \in SeqUpTo(CacheItems, MaxFetch)}
        \cup {[status_code |-> 503, data |-> <<>>]}

AnnouncementOf(item) ==
    LET att == GetDefault(item, "attchmntFile", "")
    IN  [symbol |-> Get(item, "symbol"),
         company_name |-> Get(item, "companyName"),
         subject |-> Get(item, "desc"),
         details |-> Get(item, "smInf"),
         broadcast_date |-> Get(item, "an_dt"),
         attachment_link |-> IF att # ""
                             THEN "https://nsearchives.nseindia.com" \o att
                             ELSE PyNone,
         attachment_size |-> Get(item, "attchmntSize")]

\* None on a non-200 answer, else the list of announcements
fetch_announcements(resp) ==
    IF resp.status_code # 200
    THEN [isNone |-> TRUE, list |-> <<>>]
    ELSE [isNone |-> FALSE,
          list |-> [i \in 1..Len(resp.data) |-> AnnouncementOf(resp.data[i])]]

\* open(CACHE_FILE, "w") truncates the file and json.dump then writes the
\* document; when the write fails the file is left cut short and unparsable
save_cache(announcements, fault) ==
    IF fault
    THEN [status |-> "partial", filings |-> <<>>]
    ELSE [status |-> "complete", filings |-> announcements]

load_cache_wrong_key(file) == <<>>

\* the filings of the file, [] when it is missing or does not parse
load_cache(file) ==
    IF file.status = "complete" THEN file.filings ELSE <<>>

FilingId_with_details(f) ==
    Format(f.symbol) \o "_" \o Format(f.broadcast_date) \o "_"
        \o Format(f.subject) \o "_" \o Format(f.details)

FilingId(f) ==
    Format(f.symbol) \o "_" \o Format(f.broadcast_date) \o "_" \o Format(f.subject)

RECURSIVE Filter(_, _)
Filter(s, keep) ==
    IF s = <<>> THEN <<>>
    ELSE IF Head(s) \in keep
         THEN <<Head(s)>> \o Filter(Tail(s), keep)
         ELSE Filter(Tail(s), keep)

\* a find_new that reports an id once: a record whose id an earlier record
\* of the same fetch carries is left out
find_new_once_per_id(old, new) ==
    LET old_ids == {FilingId(f) : f \in Range(old)}
        firsts == {i \in 1..Len(new) : \A j \in 1..(i - 1) : FilingId(new[j]) # FilingId(new[i])}
        kept == {i \in firsts : FilingId(new[i]) \notin old_ids}
        idx == Filter([i \in 1..Len(new) |-> i], kept)
    IN  [j \in 1..Len(idx) |-> new[idx[j]]]

find_new_by_company(old, new) ==
    LET old_ids == {<<f.company_name, f.broadcast_date, f.subject>> : f \in Range(old)}
    IN  Filter(new, {f \in Range(new) :
                        <<f.company_name, f.broadcast_date, f.subject>> \notin old_ids})

find_new(old, new) ==
    LET old_ids == {FilingId(f) : f \in Range(old)}
    IN  Filter(new, {f \in Range(new) : FilingId(f) \notin old_ids})

\* r is b fetched again: the same filing, only details or attachment differ
Refetched(b, r) ==
    /\ b # r
    /\ b.symbol = r.symbol
    /\ b.company_name = r.company_name
    /\ b.broadcast_date = r.broadcast_date
    /\ b.subject = r.subject

\* one run of the script. run records the cycle for the properties below:
\* repeat, that the cycle before it completed on the very same upstream
\* answer; refetched, that it fetched a filing of the loaded baseline with
\* other details or attachment; first, that it found no readable
\* nse_cache.json
main(resp, fault) ==
    LET current == fetch_announcements(resp)
        repeat == run.outcome = "saved" /\ run.fetched = current.list
    IN  IF current.isNone \/ current.list = <<>>
        THEN /\ ~fault
             /\ run' = [outcome |-> "aborted", fetched |-> <<>>,
                        new |-> <<>>, repeat |-> FALSE, refetched |-> FALSE,
                        first |-> FALSE]
             /\ UNCHANGED <<cacheFile, mongoVars>>
        ELSE LET old == load_cache(cacheFile)
                 new == find_new(old, current.list)
             IN  /\ cacheFile' = save_cache(current.list, fault)
                 /\ run' = [outcome |-> IF fault THEN "save_failed" ELSE "saved",
                            fetched |-> current.list,
                            new |-> new,
                            repeat |-> repeat,
                            refetched |-> \E b \in Range(old) :
                                \E r \in Range(current.list) : Refetched(b, r),
                            first |-> cacheFile.status # "complete"]
                 /\ UNCHANGED mongoVars

----------------------------------------------------------------------------
(* MongoDB collections. company-map, company and hourly_summaries are only *)
(* ever looked up by _id and are the sets of their documents; last_hour is  *)
(* iterated in insertion order and is the sequence of its documents. A      *)
(* document is a record with an _id. The wall-clock fields the scripts      *)
(* write (scraped_at, last_updated, timestamp) are read by no code and are  *)
(* left out of the documents.                                               *)

Ids(coll) == {d._id : d \in coll}

WithId(coll, id) == {d \in coll : d._id = id}

UpsertSet_insert_always(coll, id, fields) ==
    coll \cup {fields @@ [_id |-> id]}

\* update_one({'_id': id}, {'$set': fields}, upsert=True)
UpsertSet(coll, id, fields) ==
    IF WithId(coll, id) = {}
    THEN coll \cup {fields @@ [_id |-> id]}
    ELSE LET doc == CHOOSE d \in WithId(coll, id) : TRUE
         IN  (coll \ {doc}) \cup {fields @@ doc}

\* update_one({'_id': id}, {'$push': {'announcements': a}, '$set': fields},
\*            upsert=True)
UpsertPush(coll, id, a, fields) ==
    IF WithId(coll, id) = {}
    THEN coll \cup {fields @@ [_id |-> id, announcements |-> <<a>>]}
    ELSE LET doc == CHOOSE d \in WithId(coll, id) : TRUE
         IN  (coll \ {doc})
                \cup {fields @@ [doc EXCEPT !.announcements = Append(@, a)]}

\* insert_many(docs), ordered: the documents go in one by one until one has
\* an _id already in the collection or the write fails (after failAt
\* documents); the rest are not inserted
RECURSIVE InsertMany(_, _, _)
InsertMany(coll, docs, failAt) ==
    IF docs = <<>> \/ failAt = 0 \/ Head(docs)._id \in Ids(Range(coll))
    THEN coll
    ELSE InsertMany(Append(coll, Head(docs)), Tail(docs), failAt - 1)

----------------------------------------------------------------------------
(* nse_scrapper.py *)

\* longest record list the NSE API returns
MaxRecords == 2

\* most announcements the /scrape endpoint accumulates for one company
MaxAnnouncements == 2

\* records of the NSE corporate-announcements API
NoCompanyItem ==
    [symbol |-> "", sm_name |-> "", desc |-> "Notice",
     attchmntText |-> "d3", attchmntFile |-> "", an_dt |-> "T3"]

NseItems ==
    { [symbol |-> "ACME", sm_name |-> "Acme Ltd", desc |-> "Board Meeting",
       attchmntText |-> "d1", attchmntFile |-> "/a.pdf", an_dt |-> "T1"],
      [symbol |-> "ACME", sm_name |-> "Acme Ltd", desc |-> "Dividend",
       attchmntText |-> "d2", attchmntFile |-> "https://x/b.pdf", an_dt |-> "T2"],
      NoCompanyItem }

\* what fetch_corporate_filings returns: None, a dict with a 'data' list, a
\* bare list, or a dict with the list under 'records'
FetchResults ==
    {[kind |-> "none", items |-> <<>>], [kind |-> "list", items |-> <<>>],
     [kind |-> "records", items |-> <<>>],
     [kind |-> "records", items |-> <<NoCompanyItem>>]}
        \cup {[kind |-> "data", items |-> d] : d \in SeqUpTo(NseItems, MaxRecords)}

\* bool(data): None and the empty list are false, a dict with a key is true
DataTruthy(data) ==
    /\ data.kind # "none"
    /\ data.kind = "list" => data.items # <<>>

RowOf(item) ==
    [Symbol |-> GetDefault(item, "symbol", ""),
     Company |-> GetDefault(item, "sm_name", ""),
     Subject |-> GetDefault(item, "desc", ""),
     Description |-> GetDefault(item, "attchmntText", ""),
     Attachment_URL |-> GetDefault(item, "attchmntFile", ""),
     File_Size |-> GetDefault(item, "sm_size", ""),
     Timestamp |-> GetDefault(item, "an_dt", ""),
     XBRL_Link |-> GetDefault(item, "xbrl", "")]

\* the DataFrame of the records, None when there is no record list
parse_to_dataframe(data) ==
    IF ~DataTruthy(data) \/ data.items = <<>>
    THEN [isNone |-> TRUE, records |-> <<>>]
    ELSE [isNone |-> FALSE,
          records |-> [i \in 1..Len(data.items) |-> RowOf(data.items[i])]]

\* the announcement both nse_scrapper.py loops build from a DataFrame row
AnnouncementOfRow(rec) ==
    [Symbol |-> Or(Get(rec, "Symbol"), GetDefault(rec, "symbol", "")),
     Subject |-> Or(Get(rec, "Subject"), GetDefault(rec, "desc", "")),
     Description |-> Or(Get(rec, "Description"), GetDefault(rec, "attchmntText", "")),
     Attachment_URL |-> Or(Get(rec, "Attachment_URL"), GetDefault(rec, "attchmntFile", "")),
     File_Size |-> Or(Get(rec, "File_Size"), GetDefault(rec, "sm_size", "")),
     Timestamp |-> Or(Get(rec, "Timestamp"), GetDefault(rec, "an_dt", "")),
     XBRL_Link |-> Or(Get(rec, "XBRL_Link"), GetDefault(rec, "xbrl", ""))]

\* the faults of one scrape run
NoFault == 0
DropFault == 1
InsertFault(k) == 10 + k         \* insert_many fails after k documents
UpsertFault(i) == 20 + i         \* update_one raises for record i

Faults(n) ==
    {NoFault, DropFault} \cup {InsertFault(k) : k \in 0..(n - 1)}
        \cup {UpsertFault(i) : i \in 1..n}

\* NSEScraper.save_to_mongodb on a configured collection and a non-empty
\* DataFrame: one company-keyed upsert per record; a record whose update_one
\* raises is counted in errors and the loop goes on; it returns True
RECURSIVE save_to_mongodb(_, _, _, _)
save_to_mongodb(coll, records, i, fault) ==
    IF i > Len(records)
    THEN [coll |-> coll, upserted |-> 0, errors |-> 0, result |-> TRUE]
    ELSE LET record == records[i]
             company == Or(Or(Or(Get(record, "Company"), Get(record, "sm_name")),
                              Get(record, "company")), "Unknown")
             failed == fault = UpsertFault(i)
             next == IF failed THEN coll
                     ELSE UpsertSet(coll, company,
                            [announcement |-> AnnouncementOfRow(record)])
             rest == save_to_mongodb(next, records, i + 1, fault)
         IN  [rest EXCEPT !.upserted = @ + (IF failed THEN 0 ELSE 1),
                          !.errors = @ + (IF failed THEN 1 ELSE 0)]

\* the 'last_hour' documents main builds, one per DataFrame row
LastHourDocs(records) ==
    [i \in 1..Len(records) |->
        [_id |-> Or(Or(Get(records[i], "Company"), Get(records[i], "sm_name")),
                    "Unknown"),
         latest |-> AnnouncementOfRow(records[i])]]

\* main's refresh of the transient collection: drop it, then insert_many the
\* documents of this run; any exception is printed and the run goes on
RefreshLastHour(coll, df, fault) ==
    IF fault = DropFault THEN coll
    ELSE IF df.isNone THEN <<>>
    ELSE InsertMany(<<>>, LastHourDocs(df.records),
                    IF fault \in {InsertFault(k) : k \in 0..Len(df.records)}
                    THEN fault - InsertFault(0) ELSE Len(df.records))

HasAnnouncements_unchecked(df) == TRUE

\* df is not None and not df.empty
HasAnnouncements(df) == ~df.isNone /\ df.records # <<>>

\* the fetched records that name neither a company nor a symbol
Unresolvable(items) ==
    Cardinality({i \in 1..Len(items) :
        ~Truthy(Get(items[i], "sm_name")) /\ ~Truthy(Get(items[i], "symbol"))})

\* what one run of nse_scrapper.py that starts on the collections of st
\* leaves: the collections and the outcome of the run
nse_scrapper_run(st, connected, data, fault) ==
    LET df == parse_to_dataframe(data)
        stopped(outcome) ==
            [companyMap |-> st.companyMap, lastHour |-> st.lastHour,
             scrapeRun |-> [script |-> "nse_scrapper", outcome |-> outcome,
                            fetched |-> 0, unresolvable |-> 0, errors |-> 0]]
        saved == save_to_mongodb(st.companyMap, df.records, 1, fault)
    IN  IF ~connected THEN stopped("no_db")
        ELSE IF ~DataTruthy(data) THEN stopped("fetch_failed")
        ELSE IF ~HasAnnouncements(df) THEN stopped("no_announcements")
        ELSE [companyMap |-> saved.coll,
              lastHour |-> RefreshLastHour(st.lastHour, df, fault),
              scrapeRun |-> [script |-> "nse_scrapper", outcome |-> "scraped",
                             fetched |-> Len(data.items),
                             unresolvable |-> Unresolvable(data.items),
                             errors |-> saved.errors]]

\* one run of nse_scrapper.py; a fault is one of the database operations
\* the run reaches
nse_scrapper_main(connected, data, fault) ==
    LET df == parse_to_dataframe(data)
        end == nse_scrapper_run([companyMap |-> companyMap, lastHour |-> lastHour],
                                connected, data, fault)
    IN  /\ UNCHANGED <<cacheVars, companyColl, notifyVars, auxVars>>
        /\ IF connected /\ DataTruthy(data) /\ HasAnnouncements(df)
           THEN fault \in Faults(Len(df.records))
           ELSE fault = NoFault
        /\ companyMap' = end.companyMap
        /\ lastHour' = end.lastHour
        /\ scrapeRun' = end.scrapeRun

\* A run of nse_scrapper.py that is killed, as run_script does when its
\* timeout expires. The run stops at one of the points between its writes:
\* 0 before the drop, 1 after drop_collection, 2 after insert_many, 2 + i
\* after the i-th update_one of save_to_mongodb.
nse_scrapper_killed(data, point) ==
    LET df == parse_to_dataframe(data)
        done == IF point > 2 THEN point - 2 ELSE 0
    IN  /\ DataTruthy(data)
        /\ HasAnnouncements(df)
        /\ point \in 0..(Len(df.records) + 2)
        /\ lastHour' = IF point = 0 THEN lastHour
                       ELSE IF point = 1 THEN <<>>
                       ELSE RefreshLastHour(lastHour, df, NoFault)
        /\ companyMap' = save_to_mongodb(companyMap, SubSeq(df.records, 1, done),
                                         1, NoFault).coll
        /\ scrapeRun' = [script |-> "nse_scrapper", outcome |-> "killed",
                         fetched |-> Len(data.items),
                         unresolvable |-> Unresolvable(data.items),
                         errors |-> 0]
        /\ UNCHANGED <<cacheVars, companyColl, notifyVars, auxVars>>

\* Overlapping runs of nse_scrapper.py, each started by its own request to
\* /api/scrape: nothing serialises them, so the database operations of one
\* run (drop_collection, insert_many, the upserts) interleave with those of
\* the other. A run is idle or done (between runs), fetched (it holds its
\* DataFrame), dropped, or saving (upserts are next). The upserts of one run
\* are followed as one step: they do not touch last_hour.

\* the upstream answers the overlapping runs are followed on
OverlapFetches ==
    {[kind |-> "data", items |-> d] :
        d \in { <<CHOOSE item \in NseItems : item.an_dt = "T1">>,
                <<NoCompanyItem, CHOOSE item \in NseItems : item.an_dt = "T2">> }}

cycle_fetch(p, data) ==
    LET df == parse_to_dataframe(data)
    IN  /\ cycles[p].pc \in {"idle", "done"}
        /\ DataTruthy(data)
        /\ HasAnnouncements(df)
        /\ cycles' = [cycles EXCEPT ![p] = [pc |-> "fetched", records |-> df.records]]
        /\ UNCHANGED <<cacheVars, companyMap, lastHour, companyColl, scrapeRun,
                       notifyVars, summaryMap, sendRun, phoneRun, otherVars>>

cycle_drop(p) ==
    /\ cycles[p].pc = "fetched"
    /\ lastHour' = <<>>
    /\ cycles' = [cycles EXCEPT ![p].pc = "dropped"]
    /\ UNCHANGED <<cacheVars, companyMap, companyColl, scrapeRun,
                   notifyVars, summaryMap, sendRun, phoneRun, otherVars>>

cycle_insert(p) ==
    LET docs == LastHourDocs(cycles[p].records)
    IN  /\ cycles[p].pc = "dropped"
        /\ lastHour' = InsertMany(lastHour, docs, Len(docs))
        /\ cycles' = [cycles EXCEPT ![p].pc = "saving"]
        /\ UNCHANGED <<cacheVars, companyMap, companyColl, scrapeRun,
                       notifyVars, summaryMap, sendRun, phoneRun, otherVars>>

cycle_save(p) ==
    LET saved == save_to_mongodb(companyMap, cycles[p].records, 1, NoFault)
    IN  /\ cycles[p].pc = "saving"
        /\ companyMap' = saved.coll
        /\ cycles' = [cycles EXCEPT ![p].pc = "done"]
        /\ scrapeRun' = [script |-> "nse_scrapper", outcome |-> "scraped",
                         fetched |-> Len(cycles[p].records),
                         unresolvable |-> Cardinality({i \in 1..Len(cycles[p].records) :
                            ~Truthy(cycles[p].records[i].Company)
                                /\ ~Truthy(cycles[p].records[i].Symbol)}),
                         errors |-> saved.errors]
        /\ UNCHANGED <<cacheVars, lastHour, companyColl,
                       notifyVars, summaryMap, sendRun, phoneRun, otherVars>>

----------------------------------------------------------------------------
(* server.py, the /scrape endpoint *)

\* the announcement /scrape builds from a record
AnnouncementOfRecord(rec) ==
    [Symbol |-> Get(rec, "Symbol"),
     Subject |-> Or(Get(rec, "Subject"), Get(rec, "desc")),
     Description |-> Or(Get(rec, "Description"), Get(rec, "attchmntText")),
     Attachment_URL |-> Or(Get(rec, "Attachment_URL"), Get(rec, "attchmntFile")),
     File_Size |-> Or(Get(rec, "File_Size"), Get(rec, "sm_size")),
     Timestamp |-> Or(Get(rec, "Timestamp"), Get(rec, "an_dt")),
     XBRL_Link |-> Or(Get(rec, "XBRL_Link"), Get(rec, "xbrl"))]

\* the save loop of /scrape: a record with no company is skipped, every
\* other record is pushed onto its company's announcements array
RECURSIVE scrape_save(_, _, _, _)
scrape_save(coll, records, i, fault) ==
    IF i > Len(records)
    THEN [coll |-> coll, saved |-> 0, save_errors |-> 0]
    ELSE LET rec == records[i]
             company == Or(Or(Get(rec, "Company"), Get(rec, "sm_name")),
                           Get(rec, "Symbol"))
             failed == fault = UpsertFault(i)
             next == IF ~Truthy(company) \/ failed THEN coll
                     ELSE UpsertPush(coll, company, AnnouncementOfRecord(rec),
                                     [symbol |-> Get(rec, "Symbol")])
             rest == scrape_save(next, records, i + 1, fault)
         IN  IF ~Truthy(company) THEN rest
             ELSE [rest EXCEPT !.saved = @ + (IF failed THEN 0 ELSE 1),
                               !.save_errors = @ + (IF failed THEN 1 ELSE 0)]

\* one GET /scrape; db tells whether MONGODB_URI is configured
scrape(db, data, fault) ==
    LET raw == data.kind \in {"data", "list"}
        df == parse_to_dataframe(data)
        records == IF raw THEN data.items ELSE df.records
        saved == scrape_save(companyColl, records, 1, fault)
    IN  /\ UNCHANGED <<cacheVars, companyMap, lastHour, notifyVars, auxVars>>
        /\ IF ~DataTruthy(data)
           THEN /\ fault = NoFault
                /\ scrapeRun' = [script |-> "scrape", outcome |-> "fetch_failed",
                                 fetched |-> 0, unresolvable |-> 0, errors |-> 0]
                /\ UNCHANGED companyColl
           ELSE IF ~raw /\ df.isNone
           THEN /\ fault = NoFault
                /\ scrapeRun' = [script |-> "scrape", outcome |-> "not_found",
                                 fetched |-> 0, unresolvable |-> 0, errors |-> 0]
                /\ UNCHANGED companyColl
           ELSE IF ~db
           THEN /\ fault = NoFault
                /\ scrapeRun' = [script |-> "scrape", outcome |-> "scraped",
                                 fetched |-> Len(data.items),
                                 unresolvable |-> Unresolvable(data.items),
                                 errors |-> 0]
                /\ UNCHANGED companyColl
           ELSE /\ fault \in {NoFault} \cup {UpsertFault(i) : i \in 1..Len(records)}
                /\ \A d \in saved.coll : Len(d.announcements) <= MaxAnnouncements
                /\ companyColl' = saved.coll
                /\ scrapeRun' = [script |-> "scrape", outcome |-> "scraped",
                                 fetched |-> Len(data.items),
                                 unresolvable |-> Unresolvable(data.items),
                                 errors |-> saved.save_errors]

----------------------------------------------------------------------------
(* scripts/summarize_hour.py *)

\* most send_message invocations followed for one <<company, filing, phone>>
MaxSends == 2

\* A phone is the sequence of its characters; None and '' are both <<>>.
Digits == {"0", "1", "2", "3", "4", "5", "6", "7", "8", "9"}

RECURSIVE Remove(_, _)
Remove(str, chars) ==
    IF str = <<>> THEN <<>>
    ELSE IF Head(str) \in chars THEN Remove(Tail(str), chars)
         ELSE <<Head(str)>> \o Remove(Tail(str), chars)

\* str.split(sep)
RECURSIVE Split(_, _)
Split(str, sep) ==
    IF \A i \in 1..Len(str) : str[i] # sep
    THEN <<str>>
    ELSE LET k == CHOOSE i \in 1..Len(str) :
                    str[i] = sep /\ \A j \in 1..(i - 1) : str[j] # sep
         IN  <<SubSeq(str, 1, k - 1)>> \o Split(SubSeq(str, k + 1, Len(str)), sep)

normalize_phone_hour_any_length(phone) ==
    LET str == Remove(phone, {"+", "-", " "})
    IN  IF str = <<>> \/ \E i \in 1..Len(str) : str[i] \notin Digits THEN <<>>
        ELSE str

\* summarize_hour.normalize_phone: '+', '-' and ' ' are removed, what stays
\* must be 8 to 15 digits
normalize_phone_hour(phone) ==
    LET str == Remove(phone, {"+", "-", " "})
    IN  IF phone = <<>> THEN <<>>
        ELSE IF str = <<>> \/ \E i \in 1..Len(str) : str[i] \notin Digits THEN <<>>
        ELSE IF Len(str) < 8 \/ Len(str) > 15 THEN <<>>
        ELSE str

Phone1 == <<"9", "1", "8", "0", "8", "1", "4", "8", "9", "3", "4", "0">>
Phone2 == <<"9", "1", "9", "9", "9", "9", "9", "9", "9", "9", "9", "9">>

\* the documents of the contacts collection 'nse data'
Contacts ==
    << [phone |-> <<"+", "9", "1", " ", "8", "0", "-", "8", "1", "4", "8", "-",
                    "9", "3", "4", "0">>, name |-> "Ayush"],
       [mobile |-> Phone2],
       [phone |-> <<"1", "2", "3">>, name |-> "Short"] >>

\* the --recipients values tried: absent, "+918081489340,123", or "123"
RecipientArgs ==
    { <<>>,
      <<"+", "9", "1", "8", "0", "8", "1", "4", "8", "9", "3", "4", "0", ",",
        "1", "2", "3">>,
      <<"1", "2", "3">> }

\* the command lines tried: --send with and without both WhatsApp
\* credentials in the environment, --recipients, --limit
RunArgs ==
    { [send |-> sd, whatsapp_token |-> TRUE, whatsapp_phone_id |-> pid,
       recipients |-> r, limit |-> l] :
        sd \in BOOLEAN, pid \in BOOLEAN, r \in RecipientArgs, l \in {0, 1} }

\* a text is the sequence of its sentences (the pieces between full stops)
Texts ==
    { <<>>,
      <<"Notice">>,
      <<"The board declared a dividend of Rs 5", "See page 2">> }

\* what the collaborators of one run answer: whether the download works and
\* the text the PDF yields, whether OPENAI_API_KEY is set and the call
\* succeeds, and the recipients whose send_message raises. FETCH_PRICE is
\* unset, so the price is "N/A".
RunEnvs(sending) ==
    { [download |-> dl.ok, text |-> dl.text, openai_key |-> llm # "no_key",
       llm_ok |-> llm = "ok", failing |-> f] :
        dl \in {[ok |-> FALSE, text |-> <<>>]} \cup {[ok |-> TRUE, text |-> t] : t \in Texts},
        llm \in {"no_key", "error", "ok"},
        f \in IF sending THEN {{}, {Phone1}} ELSE {{}} }

\* the recipients --recipients forces
ForceRecipients(args) ==
    IF args.recipients = <<>> THEN <<>>
    ELSE LET pieces == Split(args.recipients, ",")
             norm == [i \in 1..Len(pieces) |-> normalize_phone_hour(pieces[i])]
         IN  [i \in 1..Len(Filter(norm, Range(norm) \ {<<>>})) |->
                [phone |-> Filter(norm, Range(norm) \ {<<>>})[i], name |-> "Admin"]]

\* the recipients loaded from the contacts collection
DbRecipients ==
    LET phoneOf(c) == LET ph == GetDefault(c, "phone", <<>>)
                      IN  IF ph # <<>> THEN ph ELSE GetDefault(c, "mobile", <<>>)
        valid == {i \in 1..Len(Contacts) : normalize_phone_hour(phoneOf(Contacts[i])) # <<>>}
        idx == Filter([i \in 1..Len(Contacts) |-> i], valid)
    IN  [j \in 1..Len(idx) |->
            [phone |-> normalize_phone_hour(phoneOf(Contacts[idx[j]])),
             name |-> GetDefault(Contacts[idx[j]], "name", "Subscriber")]]

\* summarize_text: the model's answer when a key is set and the call works,
\* else the first sentence longer than 20 characters
summarize_text(openai_key, llm_ok, text, company) ==
    IF text = <<>> THEN "No text extracted from document."
    ELSE IF openai_key /\ llm_ok THEN "LLM summary for " \o company
    ELSE LET clean == Filter(text, {sentence \in Range(text) : Len(sentence) > 20})
         IN  IF clean # <<>> THEN clean[1] \o "." ELSE "System update log available."

\* company.replace(' ', '')
RemoveSpaces(company) ==
    IF company = "Acme Ltd" THEN "AcmeLtd" ELSE company

Increment(count, key) ==
    IF key \in DOMAIN count THEN [count EXCEPT ![key] = @ + 1]
    ELSE count @@ (key :> 1)

\* the send loop for one document: every recipient is tried in turn
RECURSIVE Broadcast(_, _, _, _, _)
Broadcast(st, company, filing, recipients, failing) ==
    IF recipients = <<>> THEN st
    ELSE LET phone == Head(recipients).phone
             key == <<company, filing, phone>>
             ok == phone \notin failing
             after ==
                [st EXCEPT
                    !.sendCount = Increment(@, key),
                    !.resent = IF key \in st.acked THEN @ \cup {key} ELSE @,
                    !.acked = IF ok THEN @ \cup {key} ELSE @,
                    !.messages_sent = @ + (IF ok THEN 1 ELSE 0),
                    !.messages_failed = @ + (IF ok THEN 0 ELSE 1)]
         IN  Broadcast(after, company, filing, Tail(recipients), failing)

\* the loop over the last_hour documents
RECURSIVE ProcessDocs(_, _, _, _, _)
ProcessDocs(st, docs, send_messages, targets, env) ==
    IF docs = <<>> THEN st
    ELSE LET doc == Head(docs)
             company == Or(Or(Get(doc, "_id"), Get(doc, "company")),
                           Get(doc.latest, "Company"))
             latest == doc.latest
             attachment == Or(Or(Get(latest, "Attachment_URL"),
                                 Get(latest, "attchmntFile")), "")
             symbol == Or(Or(Get(latest, "Symbol"), Get(latest, "symbol")),
                          RemoveSpaces(company))
             text == IF env.download THEN env.text ELSE <<>>
             summary == summarize_text(env.openai_key, env.llm_ok, text, company)
             summary_doc == [company |-> company, price |-> "N/A",
                             update |-> summary, symbol |-> symbol]
             counted == [st EXCEPT !.processed = @ + 1]
             saved == [counted EXCEPT
                        !.summaries_success = @ + 1,
                        !.hourly = UpsertSet(@, company, summary_doc)]
             sent == IF send_messages
                     THEN Broadcast(saved, company, latest.Timestamp, targets,
                                    env.failing)
                     ELSE saved
         IN  IF ~Truthy(company)
             THEN ProcessDocs(st, Tail(docs), send_messages, targets, env)
             ELSE IF ~Truthy(attachment)
             THEN ProcessDocs(counted, Tail(docs), send_messages, targets, env)
             ELSE ProcessDocs(sent, Tail(docs), send_messages, targets, env)

\* one run of summarize_hour.py with MONGO_URI set and the database
\* reachable; notifyRun keeps the counters the run prints and the value of
\* --recipients it was started with
summarize_hour_main(args, env) ==
    LET send_messages == args.send /\ args.whatsapp_token /\ args.whatsapp_phone_id
        force_recipients == ForceRecipients(args)
        docs == IF args.limit > 0
                THEN SubSeq(lastHour, 1, IF Len(lastHour) < args.limit
                                         THEN Len(lastHour) ELSE args.limit)
                ELSE lastHour
        global_db_recipients ==
            IF send_messages /\ force_recipients = <<>> THEN DbRecipients ELSE <<>>
        targets == IF force_recipients # <<>> THEN force_recipients
                   ELSE global_db_recipients
        start == [hourly |-> hourlySummaries, sendCount |-> sendCount,
                  acked |-> acked, resent |-> resent,
                  processed |-> 0, messages_sent |-> 0, messages_failed |-> 0,
                  summaries_success |-> 0]
    IN  \E end \in {ProcessDocs(start, docs, send_messages, targets, env)} :
        /\ \A key \in DOMAIN end.sendCount : end.sendCount[key] <= MaxSends
        /\ hourlySummaries' = end.hourly
        /\ sendCount' = end.sendCount
        /\ acked' = end.acked
        /\ resent' = end.resent
        /\ notifyRun' = [outcome |-> "completed", processed |-> end.processed,
                         messages_sent |-> end.messages_sent,
                         messages_failed |-> end.messages_failed,
                         summaries_success |-> end.summaries_success,
                         recipients |-> args.recipients]
        /\ UNCHANGED <<cacheVars, companyMap, lastHour, companyColl, scrapeRun,
                       auxVars>>

\* a run that stops before it reads anything: MONGO_URI unset (return), the
\* database unreachable (exit 2) or last_hour unreadable (exit 3)
summarize_hour_stopped(why) ==
    /\ why \in {"no_mongo_uri", "connect_failed", "read_failed"}
    /\ notifyRun' = [outcome |-> why, processed |-> 0, messages_sent |-> 0,
                     messages_failed |-> 0, summaries_success |-> 0,
                     recipients |-> <<>>]
    /\ UNCHANGED <<cacheVars, companyMap, lastHour, companyColl, scrapeRun,
                   hourlySummaries, sendCount, acked, resent, auxVars>>

----------------------------------------------------------------------------
(* scripts/summarize_last_hour.py *)

\* the attempts summarize_text_with_openai makes at most (retries=3)
Retries == 3

\* what one call of the OpenAI client does: it answers with a text, it
\* answers with a text that is empty once stripped, it raises, it raises an
\* authentication error, or it answers without choices
LlmAnswers == {"ok", "empty", "error", "auth_error", "no_choices"}

\* the answers of the successive calls of one run that are tried
LlmRuns ==
    { <<"ok">>, <<"error", "ok">>, <<"error", "no_choices", "ok">>,
      <<"error", "error", "error", "ok">>, <<"auth_error", "ok">>,
      <<"no_choices", "no_choices", "no_choices">>, <<"empty">> }

\* summarize_text_with_openai: up to Retries calls; the stripped text of
\* the first answer is returned, an authentication error stops the loop,
\* after the last attempt the error text of the last failure is returned
\* with no summary
RECURSIVE summarize_text_with_openai(_, _, _)
summarize_text_with_openai(answers, company, attempt) ==
    IF attempt > Retries \/ answers = <<>>
    THEN [summary |-> PyNone, err |-> "Unknown error", calls |-> 0]
    ELSE LET rest == summarize_text_with_openai(Tail(answers), company, attempt + 1)
             failed(err) ==
                IF attempt < Retries /\ Tail(answers) # <<>>
                THEN [rest EXCEPT !.calls = @ + 1]
                ELSE [summary |-> PyNone, err |-> err, calls |-> 1]
         IN  CASE Head(answers) = "ok" ->
                    [summary |-> "LLM summary for " \o company, err |-> PyNone,
                     calls |-> 1]
               [] Head(answers) = "empty" ->
                    [summary |-> "", err |-> PyNone, calls |-> 1]
               [] Head(answers) = "auth_error" ->
                    [summary |-> PyNone, err |-> "401 invalid_api_key", calls |-> 1]
               [] Head(answers) = "error" -> failed("connection error")
               [] OTHER -> failed("No choices in OpenAI response")

\* most answers of the OpenAI client that are laid out for one call of
\* summarize_text_with_openai
MaxLlmAnswers == 4

\* one call of summarize_text_with_openai on the answers the client will
\* give to its successive attempts
summarize_call(answers) ==
    /\ llmRun' = [applied |-> TRUE, answers |-> answers,
                  result |-> summarize_text_with_openai(answers, "Acme Ltd", 1)]
    /\ UNCHANGED <<cacheVars, companyMap, lastHour, companyColl, scrapeRun,
                   notifyVars, summaryMap, sendRun, phoneRun, cycles, stockRun,
                   runAll>>

\* urljoin('https://www.nseindia.com', attachment) for a path, else the URL
AbsoluteUrl(attachment) ==
    IF attachment = "/a.pdf" THEN "https://www.nseindia.com/a.pdf" ELSE attachment

\* build_whatsapp_message, reduced to the parts that vary
build_whatsapp_message(company, summary, latest, attachment_url) ==
    "Stock: " \o company \o " > " \o summary \o " Details: " \o attachment_url

\* update_one({'_id': id}, {'$set': {sub.k: v ...}}, upsert=True) on a set
UpsertSubSet(coll, id, sub, fields) ==
    IF WithId(coll, id) = {}
    THEN coll \cup {[_id |-> id] @@ (sub :> fields)}
    ELSE LET doc == CHOOSE d \in WithId(coll, id) : TRUE
             old == IF sub \in DOMAIN doc THEN doc[sub] ELSE <<>>
         IN  (coll \ {doc}) \cup {(sub :> (fields @@ old)) @@ doc}

\* the same update on last_hour, which keeps its order
UpsertSubSeq(coll, id, sub, fields) ==
    IF \A i \in 1..Len(coll) : coll[i]._id # id
    THEN Append(coll, [_id |-> id] @@ (sub :> fields))
    ELSE [i \in 1..Len(coll) |->
            IF coll[i]._id = id
            THEN (sub :> (fields @@ (IF sub \in DOMAIN coll[i] THEN coll[i][sub]
                                     ELSE <<>>))) @@ coll[i]
            ELSE coll[i]]

record_failure_clearing(st, company, latest, attachment, err) ==
    [st EXCEPT
        !.companyMap = UpsertSubSet(@, company, "announcement", [summary |-> PyNone]),
        !.lastHour = UpsertSubSeq(@, company, "latest", [summary |-> PyNone]),
        !.summaryMap = UpsertSet(@, company,
            [company |-> company, summary |-> PyNone,
             whatsapp |-> PyNone, attachment_url |-> attachment,
             source_timestamp |-> Get(latest, "Timestamp"),
             success |-> FALSE, error |-> err])]

\* the branch of main for a summary that is None or empty: the failure goes
\* to summary-map with the error the summarizer returned, company-map and
\* last_hour are not written
record_failure(st, company, latest, attachment, err) ==
    [st EXCEPT
        !.summaryMap = UpsertSet(@, company,
            [company |-> company, summary |-> PyNone,
             whatsapp |-> PyNone, attachment_url |-> attachment,
             source_timestamp |-> Get(latest, "Timestamp"),
             success |-> FALSE, error |-> err])]

\* the loop of main over the last_hour documents read at its start
RECURSIVE SummarizeDocs(_, _, _)
SummarizeDocs(st, docs, env) ==
    IF docs = <<>> THEN st
    ELSE LET doc == Head(docs)
             company == Or(Or(Or(Get(doc, "_id"), Get(doc, "company")),
                              Get(doc.latest, "Company")), "Unknown")
             latest == doc.latest
             raw == Or(Or(Get(latest, "Attachment_URL"), Get(latest, "attchmntFile")), "")
             attachment == AbsoluteUrl(raw)
             answer == summarize_text_with_openai(env.llm, company, 1)
             summary == answer.summary
             whatsapp_msg == build_whatsapp_message(company, summary, latest, attachment)
             done ==
                [st EXCEPT
                    !.companyMap = UpsertSubSet(@, company, "announcement",
                        [summary |-> summary, whatsapp |-> whatsapp_msg,
                         attachment_processed |-> TRUE]),
                    !.lastHour = UpsertSubSeq(@, company, "latest",
                        [summary |-> summary, whatsapp |-> summary,
                         attachment_processed |-> TRUE]),
                    !.summaryMap = UpsertSet(@, company,
                        [company |-> company, summary |-> summary,
                         whatsapp |-> whatsapp_msg, attachment_url |-> attachment,
                         source_timestamp |-> Get(latest, "Timestamp"),
                         success |-> TRUE])]
             failed == record_failure(st, company, latest, attachment, answer.err)
         IN  IF ~Truthy(raw) \/ ~env.download
             THEN SummarizeDocs(st, Tail(docs), env)
             ELSE IF Truthy(summary)
             THEN SummarizeDocs(done, Tail(docs), env)
             ELSE SummarizeDocs(failed, Tail(docs), env)

\* what one run of summarize_last_hour.py that starts on the collections
\* of st leaves
summarize_last_hour_run(st, args, env) ==
    LET docs == IF args.limit > 0
                THEN SubSeq(st.lastHour, 1, IF Len(st.lastHour) < args.limit
                                            THEN Len(st.lastHour) ELSE args.limit)
                ELSE st.lastHour
    IN  IF ~args.openai_key \/ ~args.mongo_uri \/ args.db # "up"
        THEN st
        ELSE SummarizeDocs(st, docs, env)

\* one run of summarize_last_hour.py
summarize_last_hour_main(args, env) ==
    LET start == [companyMap |-> companyMap, lastHour |-> lastHour,
                  summaryMap |-> summaryMap]
    IN  \E end \in {summarize_last_hour_run(start, args, env)} :
        /\ companyMap' = end.companyMap
        /\ lastHour' = end.lastHour
        /\ summaryMap' = end.summaryMap
        /\ UNCHANGED <<cacheVars, companyColl, scrapeRun, notifyVars,
                       sendRun, phoneRun, cycles, otherVars>>

----------------------------------------------------------------------------
(* scripts/broadcast_message.py and scripts/send_whatsapp_template.py *)

\* most contacts of the 'nse data' collection a broadcast is followed on
MaxContacts == 2

\* the contact documents tried
ContactDocs == Range(Contacts) \cup {[name |-> "NoPhone"]}

\* the send loop both scripts run over their recipients: send_message is
\* invoked for every recipient in turn; a recipient whose send raises is
\* counted as failed and the loop goes on
RECURSIVE SendEach_stop_at_failure(_, _)
SendEach_stop_at_failure(phones, failing) ==
    IF phones = <<>> THEN [attempts |-> <<>>, sent |-> 0, failed |-> 0]
    ELSE IF Head(phones) \in failing
    THEN [attempts |-> <<Head(phones)>>, sent |-> 0, failed |-> 1]
    ELSE LET rest == SendEach_stop_at_failure(Tail(phones), failing)
         IN  [rest EXCEPT !.attempts = <<Head(phones)>> \o @, !.sent = @ + 1]

RECURSIVE SendEach(_, _)
SendEach(phones, failing) ==
    IF phones = <<>> THEN [attempts |-> <<>>, sent |-> 0, failed |-> 0]
    ELSE LET rest == SendEach(Tail(phones), failing)
             ok == Head(phones) \notin failing
         IN  [rest EXCEPT !.attempts = <<Head(phones)>> \o @,
                          !.sent = @ + (IF ok THEN 1 ELSE 0),
                          !.failed = @ + (IF ok THEN 0 ELSE 1)]

SendLoop_ignoring_dry_run(phones, failing, dry_run) == SendEach(phones, failing)

\* the loop of main over its recipients: with --dry-run the payload is
\* printed and the loop continues with the next recipient, so send_message
\* is not reached
SendLoop(phones, failing, dry_run) ==
    IF dry_run THEN [attempts |-> <<>>, sent |-> 0, failed |-> 0]
    ELSE SendEach(phones, failing)

\* the recipients broadcast_message.py builds: the contacts that have a
\* phone or a mobile, with '+', '-' and ' ' removed from it
BroadcastRecipients(contacts) ==
    LET phoneOf(c) == LET ph == GetDefault(c, "phone", <<>>)
                      IN  IF ph # <<>> THEN ph ELSE GetDefault(c, "mobile", <<>>)
        have == {i \in 1..Len(contacts) : phoneOf(contacts[i]) # <<>>}
        idx == Filter([i \in 1..Len(contacts) |-> i], have)
    IN  [j \in 1..Len(idx) |-> Remove(phoneOf(contacts[idx[j]]), {"+", "-", " "})]

StoppedSend(script, outcome, exit) ==
    [script |-> script, outcome |-> outcome, exit |-> exit, targets |-> <<>>,
     attempts |-> <<>>, sent |-> 0, failed |-> 0]

\* one run of broadcast_message.py; exit is the status it ends with
broadcast_message_main(args, contacts, failing) ==
    LET recipients == BroadcastRecipients(contacts)
        result == SendLoop(recipients, failing, args.dry_run)
        script == "broadcast_message"
    IN  /\ UNCHANGED <<cacheVars, companyMap, lastHour, companyColl, scrapeRun,
                       notifyVars, summaryMap, phoneRun, cycles, otherVars>>
        /\ sendRun' =
            IF ~args.mongo_uri THEN StoppedSend(script, "missing_mongo_uri", 1)
            ELSE IF ~args.dry_run /\ ~args.token
            THEN StoppedSend(script, "missing_token", 1)
            ELSE IF ~args.dry_run /\ ~args.phone_id
            THEN StoppedSend(script, "missing_phone_id", 1)
            ELSE IF args.db = "down" THEN StoppedSend(script, "connect_failed", 2)
            ELSE IF args.db = "unreadable" THEN StoppedSend(script, "read_failed", 3)
            ELSE IF contacts = <<>> THEN StoppedSend(script, "no_contacts", 0)
            ELSE IF recipients = <<>> THEN StoppedSend(script, "no_recipients", 0)
            ELSE [script |-> script,
                  outcome |-> IF args.dry_run THEN "dry_run" ELSE "sent",
                  exit |-> IF result.failed = 0 THEN 0 ELSE 1,
                  targets |-> recipients, attempts |-> result.attempts,
                  sent |-> result.sent, failed |-> result.failed]

\* what stays of str when every character outside chars is removed
RECURSIVE KeepOnly(_, _)
KeepOnly(str, chars) ==
    IF str = <<>> THEN <<>>
    ELSE IF Head(str) \in chars THEN <<Head(str)>> \o KeepOnly(Tail(str), chars)
         ELSE KeepOnly(Tail(str), chars)

\* send_whatsapp_template.normalize_phone: every non-digit is removed, what
\* stays must be 8 to 15 digits
normalize_phone_template(phone) ==
    LET str == KeepOnly(phone, Digits)
    IN  IF phone = <<>> THEN <<>>
        ELSE IF str = <<>> THEN <<>>
        ELSE IF Len(str) < 8 \/ Len(str) > 15 THEN <<>>
        ELSE str

\* validate_recipients: the normalized phones of the valid entries, and the
\* entries that failed
validate_recipients(recipients) ==
    LET norm == [i \in 1..Len(recipients) |-> normalize_phone_template(recipients[i])]
    IN  [valids |-> Filter(norm, Range(norm) \ {<<>>}),
         invalids |-> Filter(recipients,
                        {r \in Range(recipients) : normalize_phone_template(r) = <<>>})]

\* the --to values tried: absent, "+91 80-8148-9340", "123", "tel:919999999999"
ToArgs ==
    { <<>>,
      <<"+", "9", "1", " ", "8", "0", "-", "8", "1", "4", "8", "-", "9", "3", "4", "0">>,
      <<"1", "2", "3">>,
      <<"t", "e", "l", ":">> \o Phone2 }

\* the --company-id values tried: absent, a company of the feed, another one
CompanyIds == {PyNone, "Acme Ltd", "Nobody Ltd"}

\* what one run of send_whatsapp_template.py does on the collections of st.
\* The customers lists it falls back on without --to are lists of phone
\* strings under 'customers'.
send_whatsapp_template_run(st, args, failing) ==
    LET script == "send_whatsapp_template"
        last_doc == {d \in Range(st.lastHour) : d._id = args.company_id}
        latest == (CHOOSE d \in last_doc : TRUE).latest
        company_docs == WithId(st.companyMap, args.company_id)
        announcement == IF company_docs = {} THEN [none |-> PyNone]
                        ELSE GetDefault(CHOOSE d \in company_docs : TRUE,
                                        "announcement", [none |-> PyNone])
        custs == IF GetDefault(latest, "customers", <<>>) # <<>>
                 THEN latest.customers
                 ELSE GetDefault(announcement, "customers", <<>>)
        recipients == IF args.to # <<>> THEN <<args.to>>
                      ELSE Filter(custs, Range(custs) \ {<<>>})
        valid_recipients == validate_recipients(recipients).valids
        result == SendLoop(valid_recipients, failing, args.dry_run)
    IN  IF ~args.token THEN StoppedSend(script, "missing_token", 0)
        ELSE IF ~args.phone_id THEN StoppedSend(script, "missing_phone_id", 0)
        ELSE IF ~args.mongo_uri THEN StoppedSend(script, "missing_mongo_uri", 0)
        ELSE IF ~Truthy(args.company_id)
        THEN StoppedSend(script, "missing_company_id", 0)
        ELSE IF args.db = "down" THEN StoppedSend(script, "connect_failed", 0)
        ELSE IF last_doc = {} THEN StoppedSend(script, "no_document", 0)
        ELSE IF valid_recipients = <<>>
        THEN StoppedSend(script, "no_valid_recipients", 0)
        ELSE IF args.check_only
        THEN [StoppedSend(script, "check_only", 0) EXCEPT !.targets = valid_recipients]
        ELSE [script |-> script,
              outcome |-> IF args.dry_run THEN "dry_run" ELSE "sent", exit |-> 0,
              targets |-> valid_recipients, attempts |-> result.attempts,
              sent |-> result.sent, failed |-> result.failed]

\* one run of send_whatsapp_template.py
send_whatsapp_template_main(args, failing) ==
    /\ sendRun' = send_whatsapp_template_run(
                        [companyMap |-> companyMap, lastHour |-> lastHour],
                        args, failing)
    /\ UNCHANGED <<cacheVars, companyMap, lastHour, companyColl, scrapeRun,
                   notifyVars, summaryMap, phoneRun, cycles, otherVars>>

----------------------------------------------------------------------------
(* app/__init__.py, the /stock endpoint *)

\* most rows of a table of the scraped page that are followed
MaxStockRows == 2

\* the status /stock answers with when the upstream request raised or the
\* upstream body is not JSON
BadGateway == 502

\* the status of a Flask response that names none
Ok == 200

\* the rows tried: two filings with the seven cells of the page, and a row
\* that is one cell short
StockRows ==
    { [cells |-> 7, symbol |-> "INFY", company_name |-> "Infosys Limited"],
      [cells |-> 7, symbol |-> "TCS", company_name |-> "Tata Consultancy"],
      [cells |-> 6, symbol |-> "SHORT", company_name |-> "One Cell Short"] }

\* the pages tried: a list of tables, each with the texts of its th cells
\* and its rows after the header row
StockPages ==
    { <<>>, <<[headers |-> {"SYMBOL", "PRICE"}, rows |-> <<>>]>> }
    \cup { <<[headers |-> {"SYMBOL", "COMPANY NAME", "SUBJECT", "DETAILS"},
             rows |-> rows]>> : rows \in SeqUpTo(StockRows, MaxStockRows) }

\* what requests.post gives: it raises, or it returns a response with a
\* status code and a body that is JSON (holding the page) or is not
UpstreamAnswers ==
    { [kind |-> "raised", status_code |-> 0, json |-> FALSE, page |-> <<>>] }
    \cup { [kind |-> "response", status_code |-> c, json |-> j, page |-> pg] :
             c \in {200, 404, 500, 502}, j \in BOOLEAN, pg \in StockPages }

\* parse_filings_table: the rows with seven cells or more of every table
\* whose headers hold SYMBOL, COMPANY NAME and SUBJECT
RECURSIVE parse_filings_table(_)
parse_filings_table(page) ==
    IF page = <<>> THEN <<>>
    ELSE LET table == Head(page)
             enough == {r \in Range(table.rows) : r.cells >= 7}
             rows == IF {"SYMBOL", "COMPANY NAME", "SUBJECT"} \subseteq table.headers
                     THEN Filter(table.rows, enough) ELSE <<>>
         IN  [i \in 1..Len(rows) |->
                [symbol |-> rows[i].symbol, company_name |-> rows[i].company_name]]
             \o parse_filings_table(Tail(page))

stock_response_status_first(upstream) ==
    IF upstream.kind = "raised"
    THEN [status |-> BadGateway, error |-> "upstream_request_failed", filings |-> <<>>]
    ELSE IF upstream.status_code # Ok
    THEN [status |-> upstream.status_code, error |-> "upstream_error", filings |-> <<>>]
    ELSE IF ~upstream.json
    THEN [status |-> BadGateway, error |-> "invalid_upstream_response", filings |-> <<>>]
    ELSE [status |-> Ok, error |-> PyNone, filings |-> parse_filings_table(upstream.page)]

\* the response of stock: the request that raised, then the body that is
\* not JSON, then the status that is not 200, then the filings of the page
stock_response(upstream) ==
    IF upstream.kind = "raised"
    THEN [status |-> BadGateway, error |-> "upstream_request_failed", filings |-> <<>>]
    ELSE IF ~upstream.json
    THEN [status |-> BadGateway, error |-> "invalid_upstream_response", filings |-> <<>>]
    ELSE IF upstream.status_code # Ok
    THEN [status |-> upstream.status_code, error |-> "upstream_error", filings |-> <<>>]
    ELSE [status |-> Ok, error |-> PyNone, filings |-> parse_filings_table(upstream.page)]

\* one GET /stock; stockRun keeps the upstream answer next to the response
stock(upstream) ==
    /\ stockRun' = [called |-> TRUE, upstream |-> upstream,
                    response |-> stock_response(upstream)]
    /\ UNCHANGED <<cacheVars, companyMap, lastHour, companyColl, scrapeRun,
                   notifyVars, summaryMap, sendRun, phoneRun, cycles, runAll, llmRun>>

----------------------------------------------------------------------------
(* server.py, run_all_once and /api/run_all *)

\* run_script: the return code of a script that is still running when the
\* timeout expires
TimeoutReturncode == 2

\* run_script: the return code is the exit status of the script, or
\* TimeoutReturncode when the script was killed at the timeout
run_script(exit, timed_out) == IF timed_out THEN TimeoutReturncode ELSE exit

\* run_all_once: nse_scrapper.py, then scripts/summarize_last_hour.py, then
\* scripts/send_whatsapp_template.py, each started without arguments, so
\* each takes its configuration from the environment env. nse_scrapper.py
\* and summarize_last_hour.py end by returning from main: their exit status
\* is 0. A script in timeouts hangs in its first network call and is killed
\* before it has written anything.
run_all_once(st, data, env, failing, timeouts) ==
    LET scraped ==
            IF "scrape" \in timeouts
            THEN [companyMap |-> st.companyMap, lastHour |-> st.lastHour,
                  scrapeRun |-> [script |-> "nse_scrapper", outcome |-> "killed",
                                 fetched |-> 0, unresolvable |-> 0, errors |-> 0]]
            ELSE nse_scrapper_run(st, TRUE, data, NoFault)
        before == [companyMap |-> scraped.companyMap, lastHour |-> scraped.lastHour,
                   summaryMap |-> st.summaryMap]
        summarized ==
            IF "summarize" \in timeouts THEN before
            ELSE summarize_last_hour_run(before,
                    [openai_key |-> env.openai_key, mongo_uri |-> env.mongo_uri,
                     db |-> "up", limit |-> 0],
                    [download |-> env.download, llm |-> env.llm])
        sent ==
            IF "send" \in timeouts
            THEN StoppedSend("send_whatsapp_template", "killed", TimeoutReturncode)
            ELSE send_whatsapp_template_run(summarized,
                    [token |-> env.token, phone_id |-> env.phone_id,
                     mongo_uri |-> env.mongo_uri, db |-> "up", dry_run |-> FALSE,
                     check_only |-> FALSE, company_id |-> PyNone, to |-> env.to],
                    failing)
    IN  [companyMap |-> summarized.companyMap, lastHour |-> summarized.lastHour,
         summaryMap |-> summarized.summaryMap, scrapeRun |-> scraped.scrapeRun,
         sendRun |-> sent,
         results |-> [scrape |-> run_script(0, "scrape" \in timeouts),
                      summarize |-> run_script(0, "summarize" \in timeouts),
                      send |-> run_script(sent.exit, "send" \in timeouts)]]

\* the companies of last_hour that hold a summary
Summarized(coll) ==
    {coll[i]._id : i \in {j \in 1..Len(coll) : "summary" \in DOMAIN coll[j].latest}}

\* one request to /api/run_all: the cycle, then success is whether every
\* return code is 0. runAll keeps the results, the companies the cycle
\* summarized and whether the environment names a valid recipient.
api_run_all(data, env, failing, timeouts) ==
    \E end \in {run_all_once([companyMap |-> companyMap, lastHour |-> lastHour,
                              summaryMap |-> summaryMap],
                             data, env, failing, timeouts)} :
        /\ companyMap' = end.companyMap
        /\ lastHour' = end.lastHour
        /\ summaryMap' = end.summaryMap
        /\ scrapeRun' = end.scrapeRun
        /\ sendRun' = end.sendRun
        /\ runAll' = [ran |-> TRUE, results |-> end.results,
                      success |-> \A k \in DOMAIN end.results : end.results[k] = 0,
                      summarized |-> IF end.scrapeRun.outcome = "scraped"
                                     THEN Summarized(end.lastHour) ELSE {},
                      recipient |-> normalize_phone_template(env.to) # <<>>]
        /\ UNCHANGED <<cacheVars, companyColl, notifyVars, phoneRun, cycles, stockRun, llmRun>>

----------------------------------------------------------------------------
(* The two normalize_phone functions as functions of their input *)

\* longest digit run of a phone value tried
MaxPhoneLen == 16

\* the characters tried next to the digit run
PhoneChars == {"+", "-", " ", "(", "a", "1"}

\* the phone values tried: a run of n digits with one more character put
\* in at any place, and the two values the documentation names
PhoneInputs ==
    LET nines(n) == [i \in 1..n |-> "9"]
    IN  { nines(k) \o <<c>> \o nines(n - k) :
            n \in 0..MaxPhoneLen, k \in 0..MaxPhoneLen, c \in PhoneChars }
        \cup { nines(n) : n \in 0..MaxPhoneLen }
        \cup { <<"+", "9", "1", " ", "8", "0", "-", "8", "1", "4", "8", "-",
                 "9", "3", "4", "0">>,
               <<"1", "2", "3">> }

\* both normalize_phone functions applied to one value
normalize_phone_call(phone) ==
    /\ phoneRun' = [phone |-> phone, hour |-> normalize_phone_hour(phone),
                    template |-> normalize_phone_template(phone), applied |-> TRUE]
    /\ UNCHANGED <<cacheVars, companyMap, lastHour, companyColl, scrapeRun,
                   notifyVars, summaryMap, sendRun, cycles, otherVars>>

----------------------------------------------------------------------------
(* Initial state and specifications *)

\* the runs of nse_scrapper.py that may overlap
Cycles == {1, 2}

MongoInit ==
    /\ companyMap = {}
    /\ lastHour = <<>>
    /\ companyColl = {}
    /\ hourlySummaries = {}
    /\ scrapeRun = [script |-> "none", outcome |-> "none",
                    fetched |-> 0, unresolvable |-> 0, errors |-> 0]
    /\ notifyRun = [outcome |-> "none", processed |-> 0, messages_sent |-> 0,
                    messages_failed |-> 0, summaries_success |-> 0,
                    recipients |-> <<>>]
    /\ sendCount = <<>>
    /\ acked = {}
    /\ resent = {}
    /\ summaryMap = {}
    /\ sendRun = StoppedSend("none", "none", 0)
    /\ cycles = [p \in Cycles |-> [pc |-> "idle", records |-> <<>>]]

FileInit ==
    /\ cacheFile = [status |-> "missing", filings |-> <<>>]
    /\ run = [outcome |-> "none", fetched |-> <<>>, new |-> <<>>,
              repeat |-> FALSE, refetched |-> FALSE, first |-> FALSE]

Init ==
    /\ FileInit
    /\ MongoInit
    /\ phoneRun = [phone |-> <<>>, hour |-> <<>>, template |-> <<>>, applied |-> FALSE]
    /\ stockRun = [called |-> FALSE,
                   upstream |-> [kind |-> "raised", status_code |-> 0,
                                 json |-> FALSE, page |-> <<>>],
                   response |-> [status |-> 0, error |-> PyNone, filings |-> <<>>]]
    /\ llmRun = [applied |-> FALSE, answers |-> <<>>,
                 result |-> [summary |-> PyNone, err |-> PyNone, calls |-> 0]]
    /\ runAll = [ran |-> FALSE, results |-> [scrape |-> 0, summarize |-> 0, send |-> 0],
                 success |-> FALSE, summarized |-> {}, recipient |-> FALSE]

Next ==
    \E resp \in Responses : \E fault \in BOOLEAN : main(resp, fault)

Spec == Init /\ [][Next]_vars

MongoNext ==
    \/ \E data \in FetchResults : \E fault \in Faults(Len(data.items)) :
            nse_scrapper_main(TRUE, data, fault)
    \/ nse_scrapper_main(FALSE, [kind |-> "none", items |-> <<>>], NoFault)
    \/ \E data \in FetchResults : \E point \in 0..(Len(data.items) + 2) :
            nse_scrapper_killed(data, point)

SpecMongo == Init /\ [][MongoNext]_vars

\* an upstream answer in which two records share a company and a third
\* names none
SharedCompanyFetch ==
    [kind |-> "data",
     items |-> << CHOOSE item \in NseItems : item.an_dt = "T1",
                  CHOOSE item \in NseItems : item.an_dt = "T2",
                  NoCompanyItem >>]

ScrapeNext ==
    \/ \E data \in FetchResults \cup {SharedCompanyFetch} :
            nse_scrapper_main(TRUE, data, NoFault)
    \/ \E db \in BOOLEAN : \E data \in FetchResults :
            \E fault \in {NoFault} \cup {UpsertFault(i) : i \in 1..Len(data.items)} :
                scrape(db, data, fault)

SpecScrape == Init /\ [][ScrapeNext]_vars

OverlapNext ==
    \E p \in Cycles :
        \/ \E data \in OverlapFetches : cycle_fetch(p, data)
        \/ cycle_drop(p)
        \/ cycle_insert(p)
        \/ cycle_save(p)

SpecOverlap == Init /\ [][OverlapNext]_vars

\* the upstream answers the notification runs are followed on
NotifyItem == CHOOSE item \in NseItems : item.an_dt = "T1"

NotifyFetches ==
    {[kind |-> "data", items |-> d] :
        d \in {<<NotifyItem>>, <<NotifyItem, NoCompanyItem>>}}

NotifyNext ==
    \/ \E data \in NotifyFetches : nse_scrapper_main(TRUE, data, NoFault)
    \/ \E args \in RunArgs :
            \E env \in RunEnvs(args.send /\ args.whatsapp_token /\ args.whatsapp_phone_id) :
                summarize_hour_main(args, env)
    \/ \E why \in {"no_mongo_uri", "connect_failed", "read_failed"} :
            summarize_hour_stopped(why)

SpecNotify == Init /\ [][NotifyNext]_vars

\* the command lines and environments of broadcast_message.py
BroadcastArgs ==
    { [token |-> t, phone_id |-> pid, mongo_uri |-> uri, db |-> db, dry_run |-> dry] :
        t \in BOOLEAN, pid \in BOOLEAN, uri \in BOOLEAN,
        db \in {"up", "down", "unreadable"}, dry \in BOOLEAN }

\* the command lines and environments of send_whatsapp_template.py
TemplateArgs ==
    { [token |-> t, phone_id |-> pid, mongo_uri |-> uri, db |-> db,
       dry_run |-> dry, check_only |-> chk, company_id |-> cid, to |-> to] :
        t \in BOOLEAN, pid \in BOOLEAN, uri \in BOOLEAN,
        db \in {"up", "down"}, dry \in BOOLEAN, chk \in BOOLEAN,
        cid \in CompanyIds, to \in ToArgs }

\* the recipients whose send_message raises in one run
Failing == {{}, {Phone1}, {Phone2}}

SendNext ==
    \/ \E data \in NotifyFetches : nse_scrapper_main(TRUE, data, NoFault)
    \/ \E args \in BroadcastArgs : \E contacts \in SeqUpTo(ContactDocs, MaxContacts) :
            \E failing \in Failing : broadcast_message_main(args, contacts, failing)
    \/ \E args \in TemplateArgs : \E failing \in Failing :
            send_whatsapp_template_main(args, failing)

SpecSend == Init /\ [][SendNext]_vars

\* the command lines and environments of summarize_last_hour.py
SummarizeArgs ==
    { [openai_key |-> k, mongo_uri |-> uri, db |-> db, limit |-> l] :
        k \in BOOLEAN, uri \in BOOLEAN, db \in {"up", "down", "unreadable"},
        l \in {0, 1} }

SummarizeEnvs ==
    { [download |-> dl, llm |-> llm] : dl \in BOOLEAN, llm \in LlmRuns }

SummarizeNext ==
    \/ \E data \in FetchResults : nse_scrapper_main(TRUE, data, NoFault)
    \/ \E args \in SummarizeArgs : \E env \in SummarizeEnvs :
            summarize_last_hour_main(args, env)

SpecSummarize == Init /\ [][SummarizeNext]_vars

PhoneNext == \E phone \in PhoneInputs : normalize_phone_call(phone)

SpecPhone == Init /\ [][PhoneNext]_vars

\* the upstream answers the run_all cycles are followed on
RunAllFetches == NotifyFetches \cup {[kind |-> "none", items |-> <<>>]}

\* the environments of the run_all cycles: the credentials and the TO of
\* .env.local, whether the attachments download, what the LLM answers
RunAllEnvs ==
    { [openai_key |-> k, mongo_uri |-> TRUE, token |-> w, phone_id |-> w, to |-> to,
       download |-> dl, llm |-> llm] :
        k \in BOOLEAN, w \in BOOLEAN, to \in {<<>>, Phone1}, dl \in BOOLEAN,
        llm \in {<<"ok">>, <<"auth_error", "ok">>} }

RunAllNext ==
    \E data \in RunAllFetches : \E env \in RunAllEnvs : \E failing \in {{}, {Phone1}} :
        \E timeouts \in {{}, {"scrape"}, {"summarize"}, {"send"}} :
            api_run_all(data, env, failing, timeouts)

SpecRunAll == Init /\ [][RunAllNext]_vars

StockNext == \E upstream \in UpstreamAnswers : stock(upstream)

LlmNext ==
    \E answers \in [1..MaxLlmAnswers -> LlmAnswers] : summarize_call(answers)

SpecLlm == Init /\ [][LlmNext]_vars

SpecStock == Init /\ [][StockNext]_vars

----------------------------------------------------------------------------
(* Properties of main.py, checked under Spec *)

Completed == run.outcome \in {"saved", "save_failed"}

\* C1: a cycle that follows a completed cycle on the very same upstream data
\* reports no novel record.
C1_SecondRunFindsNothingNew ==
    (Completed /\ run.repeat) => run.new = <<>>

C1_Witness ==
    run.outcome = "saved" /\ run.repeat /\ Len(run.fetched) = MaxFetch

C7_AbsentCompaniesRetained ==
    [][run'.outcome = "saved" =>
        \A b \in Range(load_cache(cacheFile)) :
            (\A r \in Range(run'.fetched) : r.company_name # b.company_name)
                => b \in Range(load_cache(cacheFile'))]_vars

\* A fetch that fails or returns nothing leaves nse_cache.json as it was.
MainAbortLeavesCache ==
    [][run'.outcome = "aborted" => cacheFile' = cacheFile]_vars

\* C10 as claimed: a save that fails part-way leaves the previously
\* persisted baseline intact.
C10_FailedSaveKeepsBaseline ==
    [][(run'.outcome = "save_failed" /\ cacheFile.status = "complete")
            => cacheFile' = cacheFile]_vars

\* C24: a cycle that finds nse_cache.json missing or unreadable loads the
\* empty baseline, reports every fetched record as novel, and when its save
\* succeeds the persisted baseline is the fetched record list.
C24_FirstCycleReportsEverything ==
    [][(Completed' /\ cacheFile.status # "complete") =>
        /\ load_cache(cacheFile) = <<>>
        /\ run'.new = run'.fetched
        /\ (run'.outcome = "saved" => load_cache(cacheFile') = run'.fetched)]_vars

\* a first cycle that saved two records of one id
C24_Witness ==
    /\ run.outcome = "saved"
    /\ run.first
    /\ Len(run.fetched) = MaxFetch
    /\ FilingId(run.fetched[1]) = FilingId(run.fetched[2])
    /\ cacheFile.filings = run.fetched

----------------------------------------------------------------------------
(* Properties of the scrape cycles, checked under SpecScrape and SpecMongo *)

\* the filings a collection holds for a company: one per company-map
\* document, one per element of a company document's announcements array
FilingCount(coll, id) ==
    LET docs == WithId(coll, id)
        count(d) == IF "announcements" \in DOMAIN d THEN Len(d.announcements) ELSE 1
    IN  IF docs = {} THEN 0
        ELSE LET d == CHOOSE x \in docs : TRUE IN count(d) + Cardinality(docs) - 1

C8_UnresolvableExcludedAndCounted ==
    (scrapeRun.outcome = "scraped" /\ scrapeRun.unresolvable > 0)
        => /\ "Unknown" \notin Ids(companyMap)
           /\ "Unknown" \notin Ids(Range(lastHour))
           /\ scrapeRun.errors = scrapeRun.unresolvable

\* C9: a run of nse_scrapper.py whose fetch fails or brings no record
\* changes neither company-map nor last_hour, nor anything the summarizer
\* and the notifier work from.
C9_FailedFetchMutatesNothing ==
    [][(scrapeRun'.script = "nse_scrapper" /\ scrapeRun'.fetched = 0)
            => /\ companyMap' = companyMap
               /\ lastHour' = lastHour
               /\ hourlySummaries' = hourlySummaries
               /\ sendCount' = sendCount]_vars

C9_Witness ==
    /\ scrapeRun.script = "nse_scrapper"
    /\ scrapeRun.outcome \in {"fetch_failed", "no_announcements"}
    /\ lastHour # <<>>
    /\ companyMap # {}

\* C11 as claimed: when the upsert of at least one record fails, the run
\* of nse_scrapper.py does not end as a completed scrape.
C11_SaveFailureNotReportedAsSuccess ==
    (scrapeRun.script = "nse_scrapper" /\ scrapeRun.errors > 0)
        => scrapeRun.outcome # "scraped"

\* C12 as claimed: a run of nse_scrapper.py that is killed leaves
\* company-map and last_hour either both as they were before the run or
\* both as the complete run would have left them.
C12_KilledRunAllOrNothing ==
    [][scrapeRun'.outcome = "killed"
        => \/ companyMap' = companyMap /\ lastHour' = lastHour
           \/ \E data \in FetchResults :
                LET df == parse_to_dataframe(data)
                IN  /\ HasAnnouncements(df)
                    /\ Len(data.items) = scrapeRun'.fetched
                    /\ lastHour' = RefreshLastHour(lastHour, df, NoFault)
                    /\ companyMap' =
                        save_to_mongodb(companyMap, df.records, 1, NoFault).coll]_vars

\* C13 as claimed: when the overlapping runs of nse_scrapper.py have all
\* finished, last_hour holds the complete documents of exactly one of them.
C13_OverlapLeavesOneSnapshot ==
    (\A p \in Cycles : cycles[p].pc = "done")
        => \E p \in Cycles : lastHour = LastHourDocs(cycles[p].records)

\* C14 as claimed: one record that fails to persist does not keep the
\* other records of the run from being processed, so a completed run that
\* refreshed last_hour stored all its fetched records there but at most one.
C14_OneFailureLosesOneRecord ==
    [][(scrapeRun'.script = "nse_scrapper" /\ scrapeRun'.outcome = "scraped"
            /\ lastHour' # lastHour)
        => Len(lastHour') >= scrapeRun'.fetched - 1]_vars

\* C26: after a run of nse_scrapper.py that stored its records, last_hour
\* holds exactly one document for every company of the fetched records and
\* no other document: every company the run added to company-map has its
\* document in last_hour, and last_hour holds no company twice and none
\* that company-map does not hold.
C26_LastHourHoldsEveryFetchedCompany ==
    [][(scrapeRun'.script = "nse_scrapper" /\ scrapeRun'.outcome = "scraped"
            /\ scrapeRun'.errors = 0)
        => /\ \A id \in Ids(companyMap') \ Ids(companyMap) :
                    Cardinality({i \in 1..Len(lastHour') : lastHour'[i]._id = id}) = 1
           /\ \A i, j \in 1..Len(lastHour') :
                    lastHour'[i]._id = lastHour'[j]._id => i = j
           /\ Ids(Range(lastHour')) \subseteq Ids(companyMap')]_vars

----------------------------------------------------------------------------
(* Properties of summarize_last_hour.py, checked under SpecSummarize *)

\* C18 as claimed: whatever the LLM does, every filing whose attachment was
\* summarized ends with a summary text that is not empty.
C18_EverySummaryHasText ==
    \A d \in summaryMap : Truthy(d.summary)

\* C20 as claimed: a summary-map record that is complete (success) is not
\* moved back to a failed state for the same filing by a later run.
C20_DoneNeverRegresses ==
    [][\A d \in summaryMap : \A e \in summaryMap' :
            (d.success /\ e._id = d._id /\ e.source_timestamp = d.source_timestamp)
                => e.success]_vars

----------------------------------------------------------------------------
(* Properties of the sending scripts, checked under SpecSend *)

\* a digits-only string of 8 to 15 digits
ValidPhone(phone) ==
    /\ Len(phone) >= 8
    /\ Len(phone) <= 15
    /\ \A i \in 1..Len(phone) : phone[i] \in Digits

\* C15: in a run that sends, send_message is invoked once for every
\* recipient of the list, in order, whatever the outcome for the others,
\* and the sent count plus the failed count is the number of recipients.
C15_EveryRecipientAttemptedOnce ==
    sendRun.outcome = "sent"
        => /\ sendRun.attempts = sendRun.targets
           /\ sendRun.sent + sendRun.failed = Len(sendRun.targets)

C15_Witness ==
    /\ sendRun.outcome = "sent"
    /\ Len(sendRun.targets) = 2
    /\ sendRun.failed = 1
    /\ sendRun.sent = 1
    /\ sendRun.attempts[1] = Phone1

C17_OnlyValidPhonesAreSent ==
    \A i \in 1..Len(sendRun.attempts) : ValidPhone(sendRun.attempts[i])

----------------------------------------------------------------------------
(* Properties of the notification runs, checked under SpecNotify *)

\* C2 as claimed: over repeated summarize-and-notify runs on the same
\* last_hour content, the notifier is invoked at most once for every
\* company, filing and recipient.
C2_NoDuplicateSends ==
    \A key \in DOMAIN sendCount : sendCount[key] <= 1

\* C3 as claimed: send is never invoked again for a filing and recipient
\* whose send has already succeeded.
C3_NoSendAfterSuccess ==
    resent = {}

\* C19 as claimed: a filing without an attachment is not dropped, so every
\* last_hour document a summarize_hour run went through got its summary.
C19_NoAttachmentStillSummarized ==
    notifyRun.outcome = "completed"
        => notifyRun.summaries_success = notifyRun.processed

----------------------------------------------------------------------------
(* Properties of the run_all cycle, checked under SpecRunAll *)

\* the outcomes of a sending script that stopped on missing configuration
MissingConfiguration ==
    {"missing_token", "missing_phone_id", "missing_mongo_uri", "missing_company_id"}

\* C21: the success flag of a run_all cycle, which is whether every script
\* of the cycle ended with exit status 0, is true only when no stage failed:
\* the scraper fetched its records, the sending script had its
\* configuration and no send failed.
C21_SuccessOnlyWithoutFailures ==
    (runAll.ran /\ runAll.success) =>
        /\ scrapeRun.outcome \notin {"no_db", "fetch_failed"}
        /\ sendRun.outcome \notin MissingConfiguration
        /\ sendRun.failed = 0

\* C28: a run_all cycle whose scraper stored its records, whose summarizer
\* summarized at least one company, whose three scripts ended in time and
\* whose environment holds the WhatsApp credentials, the MongoDB URI and a
\* valid recipient ends with the notifier invoked: the sending script has
\* attempted a send.
C28_SendStageNotifies ==
    (/\ runAll.ran /\ runAll.success
     /\ scrapeRun.outcome = "scraped"
     /\ runAll.summarized # {}
     /\ runAll.recipient
     /\ sendRun.outcome \notin {"missing_token", "missing_phone_id", "missing_mongo_uri"})
        => sendRun.outcome = "sent" /\ sendRun.attempts # <<>>

----------------------------------------------------------------------------
(* Properties of the suppressed runs, checked under SpecSend *)

----------------------------------------------------------------------------
(* Properties of /stock, checked under SpecStock *)

\* C23 as stated: an upstream answer whose status is not 200 is answered
\* with that status, the error 'upstream_error' and no filings; a request
\* that raised and an upstream body that is not JSON are answered with 502.
C23_NonOkStatusIsMirrored ==
    stockRun.called =>
        /\ (stockRun.upstream.kind = "response" /\ stockRun.upstream.status_code # Ok)
                => /\ stockRun.response.status = stockRun.upstream.status_code
                   /\ stockRun.response.error = "upstream_error"
                   /\ stockRun.response.filings = <<>>
        /\ (stockRun.upstream.kind = "raised" \/ ~stockRun.upstream.json)
                => stockRun.response.status = BadGateway

\* C23, amended: an upstream answer with a JSON body whose status is not 200
\* is answered with that status, the error 'upstream_error' and no filings;
\* a request that raised and an upstream body that is not JSON, whatever
\* its status, are answered with 502 and no filings.
C23_NonOkJsonStatusIsMirrored ==
    stockRun.called =>
        /\ (stockRun.upstream.kind = "response" /\ stockRun.upstream.json
                    /\ stockRun.upstream.status_code # Ok)
                => /\ stockRun.response.status = stockRun.upstream.status_code
                   /\ stockRun.response.error = "upstream_error"
                   /\ stockRun.response.filings = <<>>
        /\ (stockRun.upstream.kind = "raised" \/ ~stockRun.upstream.json)
                => /\ stockRun.response.status = BadGateway
                   /\ stockRun.response.error # "upstream_error"
                   /\ stockRun.response.filings = <<>>

\* an upstream answer 500 whose body is not JSON, on a page with filings
C23_Witness ==
    /\ stockRun.called
    /\ stockRun.upstream.kind = "response"
    /\ stockRun.upstream.status_code = 500
    /\ ~stockRun.upstream.json
    /\ stockRun.response.status = BadGateway

----------------------------------------------------------------------------
(* Properties of the forced recipients, checked under SpecNotify *)

\* the phones a --recipients value lists, normalized
Listed(recipients) ==
    {normalize_phone_hour(piece) : piece \in Range(Split(recipients, ","))} \ {<<>>}

\* C25: a run of summarize_hour.py that was given --recipients invokes
\* send_message only for phones that value lists: every send count the run
\* raises is that of a listed phone.
C25_RecipientsOverrideContacts ==
    [][(notifyRun'.outcome = "completed" /\ notifyRun'.recipients # <<>>) =>
        \A key \in DOMAIN sendCount' :
            (key \notin DOMAIN sendCount \/ sendCount'[key] # sendCount[key])
                => key[3] \in Listed(notifyRun'.recipients)]_vars

----------------------------------------------------------------------------
(* Properties of the failure branch of summarize_last_hour.py, checked     *)
(* under SpecSummarize                                                     *)

\* the documents a company has in company-map and in last_hour are the same
\* before and after the step
CompanyUntouched(id) ==
    /\ WithId(companyMap', id) = WithId(companyMap, id)
    /\ Filter(lastHour', {d \in Range(lastHour') : d._id = id})
            = Filter(lastHour, {d \in Range(lastHour) : d._id = id})

----------------------------------------------------------------------------
(* Properties of summarize_text_with_openai, checked under SpecLlm *)

\* C29: summarize_text_with_openai makes at most Retries attempts, none
\* after an authentication error, and returns either a summary that is not
\* empty with a null error, or a null summary with an error text that is
\* not empty.
C29_SummaryOrErrorText ==
    llmRun.applied =>
        /\ llmRun.result.calls <= Retries
        /\ \A i \in 1..(llmRun.result.calls - 1) : llmRun.answers[i] # "auth_error"
        /\ \/ Truthy(llmRun.result.summary) /\ llmRun.result.err = PyNone
           \/ llmRun.result.summary = PyNone /\ Truthy(llmRun.result.err)

----------------------------------------------------------------------------
(* Properties of the two normalize_phone functions, checked under SpecPhone *)

\* C30: the normalize_phone of summarize_hour.py and the normalize_phone of
\* send_whatsapp_template.py return the same for every phone value: both
\* None, or both the same digits.
C30_NormalizePhoneVersionsAgree ==
    phoneRun.applied => phoneRun.hour = phoneRun.template

====
